---- MODULE Spec2Model ----
(***************************************************************************)
(* Model of the RSA demonstration (rsa_algorithm.c) and of the two         *)
(* Diffie-Hellman demonstrations (diffie-hellman.c): the arithmetic        *)
(* routines as operators computed the way the C code computes them, the    *)
(* three main routines as state machines.                                  *)
(***************************************************************************)
EXTENDS Integers, Sequences, FiniteSets, TLC

VARIABLES
    \* --- function harness: one call of one routine on drawn arguments ---
    fa, fb, fc,      \* the arguments drawn for the call
    call,            \* "idle" or the name of the routine that was called
    ret,             \* the value the routine returned
    outx, outy,      \* the out-parameters *x, *y of gcdExtended
    outfactors,      \* the out-parameter factors[0..k-1] of factor_distinct
    \* --- rsa_algorithm.c main ---
    p, q, n, totient, e, d, g, M, C, Mp, rpc,
    \* --- diffie-hellman.c, both main routines ---
    prog,            \* "generic" (first main) or "safe" (second main), "none"
    digits,          \* DIGITS_MIN handed to gen_safe_prime
    P, r,            \* the modulus, and (P-1)/2 in the safe-prime program
    start,           \* first candidate of the generator search
    factors,         \* the factor array filled by factor_distinct (k = Len)
    alpha, XA, XB, YA, YB, SA, SB,
    dpc

fnvars  == <<fa, fb, fc, call, ret, outx, outy, outfactors>>
rsavars == <<p, q, n, totient, e, d, g, M, C, Mp, rpc>>
dhvars  == <<prog, digits, P, r, start, factors, alpha, XA, XB, YA, YB, SA, SB, dpc>>
vars    == <<fnvars, rsavars, dhvars>>

----------------------------------------------------------------------------
\* Bounds of the model
MaxArg    == 12   \* arguments of the function harness range over -MaxArg..MaxArg
MaxE      == 9    \* RSA public exponents 1..MaxE
MaxStart  == 108  \* generator search start candidates 2..MaxStart
MaxX      == 6    \* private exponents 0..MaxX
MaxDigits == 2    \* DIGITS_MIN values 1..MaxDigits
MinBits   == 5    \* floor on the bit length of P in gen_safe_prime (130 in the
                  \* program, scaled so that P stays within TLC's integers)

----------------------------------------------------------------------------
\* C integer arithmetic: '/' truncates toward zero, '%' takes the sign of
\* the dividend.
Abs(x) == IF x < 0 THEN -x ELSE x

CDiv(x, y) ==
    LET qt == Abs(x) \div Abs(y)
    IN  IF (x < 0) # (y < 0) THEN -qt ELSE qt

CMod(x, y) == x - y * CDiv(x, y)

----------------------------------------------------------------------------
\* rsa_algorithm.c

\* gcdExtended with b % a in place of b / a in the back-substitution
RECURSIVE gcdExtendedModBackSubst(_, _)
gcdExtendedModBackSubst(a, b) ==
    IF a = 0
    THEN [gcd |-> b, x |-> 0, y |-> 1]
    ELSE LET rec == gcdExtendedModBackSubst(CMod(b, a), a)
         IN  [gcd |-> rec.gcd,
              x   |-> rec.y - CMod(b, a) * rec.x,
              y   |-> rec.x]

\* gcdExtended(a, b, &x, &y): the returned gcd and the two out-parameters.
RECURSIVE gcdExtended(_, _)
gcdExtended(a, b) ==
    IF a = 0
    THEN [gcd |-> b, x |-> 0, y |-> 1]
    ELSE LET rec == gcdExtended(CMod(b, a), a)
         IN  [gcd |-> rec.gcd,
              x   |-> rec.y - CDiv(b, a) * rec.x,
              y   |-> rec.x]

findGCD(a, b) == gcdExtended(a, b).gcd

\* the for loop of modInverse, entered at d = dd
RECURSIVE modInverseFrom(_, _, _)
modInverseFrom(ee, tot, dd) ==
    IF dd < tot
    THEN IF CMod(ee * dd, tot) = 1
         THEN dd
         ELSE modInverseFrom(ee, tot, dd + 1)
    ELSE -1

modInverse(ee, tot) == modInverseFrom(ee, tot, 2)

\* the while loop of power
RECURSIVE powerLoop(_, _, _, _)
powerLoop(res, b, expo, m) ==
    IF expo > 0
    THEN powerLoop(IF expo % 2 = 1 THEN CMod(res * b, m) ELSE res,
                   CMod(b * b, m),
                   CDiv(expo, 2),
                   m)
    ELSE res

power(base, expo, m) == powerLoop(1, CMod(base, m), expo, m)

encrypt(mm, ee, nn) == power(mm, ee, nn)

decrypt(cc, dd, nn) == power(cc, dd, nn)

----------------------------------------------------------------------------
\* The big-integer substrate (GMP) as the programs use it.  Below 10^6
\* mpz_probab_prime_p decides primality exactly, so at the sizes of this
\* model the probabilistic test is trial division.

IsPrime(x) == x > 1 /\ \A dv \in 2..(x - 1) : (dv * dv > x) \/ (x % dv # 0)

\* mpz_probab_prime_p(x, reps): nonzero iff x is (probably) prime
mpz_probab_prime_p(x, reps) == IF IsPrime(x) THEN 2 ELSE 0

\* mpz_nextprime(x): the next prime greater than x
RECURSIVE mpz_nextprime(_)
mpz_nextprime(x) == IF IsPrime(x + 1) THEN x + 1 ELSE mpz_nextprime(x + 1)

\* mpz_powm(b, ex, m): b^ex mod m in 0..m-1, for ex >= 0 and m > 0
RECURSIVE mpz_powm(_, _, _)
mpz_powm(b, ex, m) ==
    IF ex = 0
    THEN 1 % m
    ELSE LET h  == mpz_powm(b, ex \div 2, m)
             sq == (h * h) % m
         IN  IF ex % 2 = 1 THEN (sq * (b % m)) % m ELSE sq

Pow2(k) == 2 ^ k

\* mpz_setbit(x, k)
mpz_setbit(x, k) == IF (x \div Pow2(k)) % 2 = 1 THEN x ELSE x + Pow2(k)

\* number of decimal digits of x > 0
RECURSIVE DecimalDigits(_)
DecimalDigits(x) == IF x < 10 THEN 1 ELSE 1 + DecimalDigits(x \div 10)

\* mpz_sizeinbase(x, 10): "either exact or 1 too big"
mpz_sizeinbase10(x) == {DecimalDigits(x), DecimalDigits(x) + 1}

----------------------------------------------------------------------------
\* diffie-hellman.c, first program

\* the factor divided out once only (an if for the while)
DivideOutOnce(nn, i) == IF nn % i = 0 THEN nn \div i ELSE nn

\* while (mpz_divisible_ui_p(n, i)) mpz_divexact_ui(n, n, i);
RECURSIVE DivideOut(_, _)
DivideOut(nn, i) == IF nn % i = 0 THEN DivideOut(nn \div i, i) ELSE nn

\* the odd trial division loop of factor_distinct, entered at i
RECURSIVE factorOddLoop(_, _, _)
factorOddLoop(nn, i, fs) ==
    IF nn > 1
    THEN LET hit == nn % i = 0
             n2  == IF hit THEN DivideOut(nn, i) ELSE nn
             fs2 == IF hit THEN Append(fs, i) ELSE fs
         IN  IF i * i > n2
             THEN [n |-> n2, factors |-> fs2]
             ELSE factorOddLoop(n2, i + 2, fs2)
    ELSE [n |-> nn, factors |-> fs]

\* factor_distinct(n, factors, &k): the factor array (k is its length) and
\* what is left of n, which the routine divides in place.
factor_distinct(nn) ==
    LET even == nn % 2 = 0
        n1   == IF even THEN DivideOut(nn, 2) ELSE nn
        fs1  == IF even THEN <<2>> ELSE <<>>
        odd  == factorOddLoop(n1, 3, fs1)
    IN  IF odd.n > 1
        THEN [n |-> odd.n, factors |-> Append(odd.factors, odd.n)]
        ELSE odd

\* the for loop of is_generator, entered at index i (1-based here)
RECURSIVE is_generatorFrom(_, _, _, _)
is_generatorFrom(gg, pp, fs, i) ==
    IF i <= Len(fs)
    THEN IF mpz_powm(gg, (pp - 1) \div fs[i], pp) = 1
         THEN 0
         ELSE is_generatorFrom(gg, pp, fs, i + 1)
    ELSE 1

is_generator(gg, pp, fs) == is_generatorFrom(gg, pp, fs, 1)

\* the search with its first candidate skipped
RECURSIVE searchGenericSkipsFirst(_, _, _)
searchGenericSkipsFirst(pp, fs, cand) ==
    IF is_generator(cand + 1, pp, fs) # 0
    THEN cand + 1
    ELSE searchGenericSkipsFirst(pp, fs, cand + 1)

\* for (cand = threshold + 1;; ++cand) if (is_generator(...)) break;
RECURSIVE searchGeneric(_, _, _)
searchGeneric(pp, fs, cand) ==
    IF is_generator(cand, pp, fs) # 0
    THEN cand
    ELSE searchGeneric(pp, fs, cand + 1)

----------------------------------------------------------------------------
\* diffie-hellman.c, second program (safe prime)

PRP_REPS == 30

\* digits_to_bits: (unsigned)(digits * 3.3219280948873626 + 0.5), at least 3
digits_to_bits(dg) ==
    LET bits == (dg * 3321928 + 500000) \div 1000000
    IN  IF bits < 3 THEN 3 ELSE bits

\* the bit length gen_safe_prime works with
safePrimeBits(dg) ==
    LET bits == digits_to_bits(dg)
    IN  IF bits < MinBits THEN MinBits ELSE bits

\* a pass that leaves the loop without the primality test of P
genSafePrimePassUntested(sample, size, dg) ==
    LET bits        == safePrimeBits(dg)
        candidate_r == mpz_nextprime(mpz_setbit(sample, bits - 2))
        PP          == candidate_r * 2 + 1
    IN  [candidate_r |-> candidate_r,
         P           |-> PP,
         accept      |-> size >= dg]

\* one pass of the for (;;) loop of gen_safe_prime on the random value
\* 'sample' of mpz_urandomb and the answer 'size' of mpz_sizeinbase(P, 10):
\* the candidate r, P = 2r + 1 and whether the loop is left.
genSafePrimePass(sample, size, dg) ==
    LET bits        == safePrimeBits(dg)
        candidate_r == mpz_nextprime(mpz_setbit(sample, bits - 2))
        PP          == candidate_r * 2 + 1
    IN  [candidate_r |-> candidate_r,
         P           |-> PP,
         accept      |-> mpz_probab_prime_p(PP, PRP_REPS) # 0 /\ size >= dg]

\* the safe-prime test without its check of the factor r
is_generator_safe_primeOnly2(gg, PP, rr) ==
    IF mpz_powm(gg, (PP - 1) \div 2, PP) = 1 THEN 0 ELSE 1

is_generator_safe_prime(gg, PP, rr) ==
    IF mpz_powm(gg, (PP - 1) \div 2, PP) = 1
    THEN 0
    ELSE IF mpz_powm(gg, (PP - 1) \div rr, PP) = 1
         THEN 0
         ELSE 1

\* for (cand = start;; ++cand) if (is_generator_safe_prime(...)) break;
RECURSIVE searchSafe(_, _, _)
searchSafe(PP, rr, cand) ==
    IF is_generator_safe_prime(cand, PP, rr) # 0
    THEN cand
    ELSE searchSafe(PP, rr, cand + 1)

----------------------------------------------------------------------------
\* Function harness: one routine is called once on arguments drawn by Init.

MaxN == 400       \* factor_distinct is also called on MaxArg+1..MaxN

InitRsaIdle ==
    /\ p = 0 /\ q = 0 /\ n = 0 /\ totient = 0 /\ e = 0 /\ d = 0 /\ g = 0
    /\ M = 0 /\ C = 0 /\ Mp = 0 /\ rpc = "none"

InitDhIdle ==
    /\ prog = "none" /\ digits = 0 /\ P = 0 /\ r = 0 /\ start = 0
    /\ factors = <<>> /\ alpha = 0 /\ XA = 0 /\ XB = 0
    /\ YA = 0 /\ YB = 0 /\ SA = 0 /\ SB = 0 /\ dpc = "none"

InitFnIdle ==
    /\ fa = 0 /\ fb = 0 /\ fc = 0 /\ call = "none"
    /\ ret = 0 /\ outx = 0 /\ outy = 0 /\ outfactors = <<>>

InitFn ==
    /\ \/ /\ fa \in -MaxArg..MaxArg
          /\ fb \in -MaxArg..MaxArg
          /\ fc \in -MaxArg..MaxArg
       \/ /\ fa \in (MaxArg + 1)..MaxN
          /\ fb = 0
          /\ fc = 0
    /\ call = "idle"
    /\ ret = 0 /\ outx = 0 /\ outy = 0 /\ outfactors = <<>>
    /\ InitRsaIdle
    /\ InitDhIdle

CallGcdExtended ==
    /\ call = "idle"
    /\ call' = "gcdExtended"
    /\ ret' = gcdExtended(fa, fb).gcd
    /\ outx' = gcdExtended(fa, fb).x
    /\ outy' = gcdExtended(fa, fb).y
    /\ UNCHANGED <<fa, fb, fc, outfactors, rsavars, dhvars>>

CallModInverse ==
    /\ call = "idle"
    /\ call' = "modInverse"
    /\ ret' = modInverse(fa, fb)
    /\ UNCHANGED <<fa, fb, fc, outx, outy, outfactors, rsavars, dhvars>>

\* m = 0 divides by zero
CallPower ==
    /\ call = "idle"
    /\ fc # 0
    /\ call' = "power"
    /\ ret' = power(fa, fb, fc)
    /\ UNCHANGED <<fa, fb, fc, outx, outy, outfactors, rsavars, dhvars>>

\* n = 0 never leaves the loop that divides 2 out
CallFactorDistinct ==
    /\ call = "idle"
    /\ fa >= 1
    /\ call' = "factor_distinct"
    /\ outfactors' = factor_distinct(fa).factors
    /\ UNCHANGED <<fa, fb, fc, ret, outx, outy, rsavars, dhvars>>

NextFn ==
    \/ CallGcdExtended
    \/ CallModInverse
    \/ CallPower
    \/ CallFactorDistinct

SpecFn == InitFn /\ [][NextFn]_vars

----------------------------------------------------------------------------
\* rsa_algorithm.c main, on drawn p, q, e and M instead of 1013, 1019, 3, 51010

MaxPrime == 7     \* p and q are primes up to MaxPrime

InitRsa ==
    /\ p \in {x \in 2..MaxPrime : IsPrime(x)}
    /\ q \in {x \in 2..MaxPrime : IsPrime(x)}
    /\ p # q
    /\ e \in 1..MaxE
    /\ M \in 0..(p * q - 1)
    /\ n = 0 /\ totient = 0 /\ d = 0 /\ g = 0 /\ C = 0 /\ Mp = 0
    /\ rpc = "start"
    /\ InitFnIdle
    /\ InitDhIdle

\* lines 73-79
KeySetup ==
    /\ rpc = "start"
    /\ n' = p * q
    /\ totient' = (p - 1) * (q - 1)
    /\ g' = findGCD(e, (p - 1) * (q - 1))
    /\ d' = modInverse(e, (p - 1) * (q - 1))
    /\ rpc' = "keys"
    /\ UNCHANGED <<p, q, e, M, C, Mp, fnvars, dhvars>>

\* line 82
Encrypt ==
    /\ rpc = "keys"
    /\ C' = encrypt(M, e, n)
    /\ rpc' = "encrypted"
    /\ UNCHANGED <<p, q, n, totient, e, d, g, M, Mp, fnvars, dhvars>>

\* line 83
Decrypt ==
    /\ rpc = "encrypted"
    /\ Mp' = decrypt(C, d, n)
    /\ rpc' = "done"
    /\ UNCHANGED <<p, q, n, totient, e, d, g, M, C, fnvars, dhvars>>

NextRsa == KeySetup \/ Encrypt \/ Decrypt

SpecRsa == InitRsa /\ [][NextRsa]_vars

----------------------------------------------------------------------------
\* diffie-hellman.c: the two main routines, on a drawn prime P (first
\* program) and DIGITS_MIN (second program).  The search start and the
\* private exponents, constants of the programs, are drawn where the
\* programs set them.

MaxP == 23        \* the first program's P is a prime up to MaxP

InitDhInputs ==
    /\ start = 0 /\ XA = 0 /\ XB = 0
    /\ factors = <<>> /\ alpha = 0
    /\ YA = 0 /\ YB = 0 /\ SA = 0 /\ SB = 0

InitGeneric ==
    /\ prog = "generic"
    /\ P \in {x \in 2..MaxP : IsPrime(x)}
    /\ r = 0
    /\ digits = 0
    /\ dpc = "factor"
    /\ InitDhInputs

InitSafe ==
    /\ prog = "safe"
    /\ digits \in 1..MaxDigits
    /\ P = 0
    /\ r = 0
    /\ dpc = "gen"
    /\ InitDhInputs

InitDh ==
    /\ InitGeneric \/ InitSafe
    /\ InitFnIdle
    /\ InitRsaIdle

\* first program, lines 60-65: factor P-1
Factor ==
    /\ prog = "generic"
    /\ dpc = "factor"
    /\ factors' = factor_distinct(P - 1).factors
    /\ dpc' = "search"
    /\ UNCHANGED <<prog, digits, P, r, start, alpha, XA, XB, YA, YB, SA, SB,
                   fnvars, rsavars>>

\* first program, lines 68-73: generator search
SearchGeneric ==
    /\ prog = "generic"
    /\ dpc = "search"
    /\ \E s \in 2..MaxStart :
         /\ start' = s
         /\ alpha' = searchGeneric(P, factors, s)
    /\ dpc' = "public"
    /\ UNCHANGED <<prog, digits, P, r, factors, XA, XB, YA, YB, SA, SB,
                   fnvars, rsavars>>

\* second program, gen_safe_prime: one pass of its loop.  P is written in
\* every pass, r only when the loop is left.
GenSafePrimePass ==
    /\ prog = "safe"
    /\ dpc = "gen"
    /\ \E sample \in 0..(Pow2(safePrimeBits(digits) - 1) - 1) :
         \E size \in mpz_sizeinbase10(genSafePrimePass(sample, 0, digits).P) :
           LET pass == genSafePrimePass(sample, size, digits)
           IN  /\ P' = pass.P
               /\ IF pass.accept
                  THEN r' = pass.candidate_r /\ dpc' = "search"
                  ELSE r' = r /\ dpc' = "gen"
    /\ UNCHANGED <<prog, digits, start, factors, alpha, XA, XB, YA, YB, SA, SB,
                   fnvars, rsavars>>

\* second program, lines 248-254: generator search
SearchSafe ==
    /\ prog = "safe"
    /\ dpc = "search"
    /\ \E s \in 2..MaxStart :
         /\ start' = s
         /\ alpha' = searchSafe(P, r, s)
    /\ dpc' = "public"
    /\ UNCHANGED <<prog, digits, P, r, factors, XA, XB, YA, YB, SA, SB,
                   fnvars, rsavars>>

\* both programs: YA = alpha^XA mod P, YB = alpha^XB mod P
PublicKeys ==
    /\ dpc = "public"
    /\ \E xa \in 0..MaxX, xb \in 0..MaxX :
         /\ XA' = xa
         /\ XB' = xb
         /\ YA' = mpz_powm(alpha, xa, P)
         /\ YB' = mpz_powm(alpha, xb, P)
    /\ dpc' = "shared"
    /\ UNCHANGED <<prog, digits, P, r, start, factors, alpha, SA, SB,
                   fnvars, rsavars>>

\* B raising its own public key instead of A's
SharedSecretsOwnKey ==
    /\ dpc = "shared"
    /\ SA' = mpz_powm(YB, XA, P)
    /\ SB' = mpz_powm(YB, XB, P)
    /\ dpc' = "done"
    /\ UNCHANGED <<prog, digits, P, r, start, factors, alpha, XA, XB, YA, YB,
                   fnvars, rsavars>>

\* both programs: SA = YB^XA mod P, SB = YA^XB mod P
SharedSecrets ==
    /\ dpc = "shared"
    /\ SA' = mpz_powm(YB, XA, P)
    /\ SB' = mpz_powm(YA, XB, P)
    /\ dpc' = "done"
    /\ UNCHANGED <<prog, digits, P, r, start, factors, alpha, XA, XB, YA, YB,
                   fnvars, rsavars>>

NextDh ==
    \/ Factor
    \/ SearchGeneric
    \/ GenSafePrimePass
    \/ SearchSafe
    \/ PublicKeys
    \/ SharedSecrets

SpecDh == InitDh /\ [][NextDh]_vars

----------------------------------------------------------------------------
\* Number theory the properties are stated with, independent of the routines

\* greatest common divisor of a >= 0 and b > 0
GCD(a, b) ==
    CHOOSE dv \in 1..b :
        /\ a % dv = 0 /\ b % dv = 0
        /\ \A d2 \in 1..b : (a % d2 = 0 /\ b % d2 = 0) => d2 <= dv

PrimeDivisors(x) == {dv \in 2..x : x % dv = 0 /\ IsPrime(dv)}

\* b^ex mod m by repeated multiplication
RECURSIVE PowMod(_, _, _)
PowMod(b, ex, m) == IF ex = 0 THEN 1 % m ELSE (PowMod(b, ex - 1, m) * (b % m)) % m

\* g^((pp-1)/qq) mod pp # 1 for every prime divisor qq of pp-1
Criterion(gg, pp) ==
    \A qq \in PrimeDivisors(pp - 1) : PowMod(gg, (pp - 1) \div qq, pp) # 1

\* {g^j mod pp, g^(j+1) mod pp, ...}, k powers from cur = g^j mod pp on
RECURSIVE PowersFrom(_, _, _, _)
PowersFrom(gg, pp, k, cur) ==
    IF k = 0 THEN {} ELSE {cur} \cup PowersFrom(gg, pp, k - 1, (cur * gg) % pp)

\* the powers g^1 .. g^(pp-1) mod pp are all the nonzero residues
IsPrimitiveRoot(gg, pp) == PowersFrom(gg, pp, pp - 1, gg % pp) = 1..(pp - 1)

\* dv^(multiplicity of dv in x)
RECURSIVE PrimePower(_, _)
PrimePower(x, dv) == IF x % dv = 0 THEN dv * PrimePower(x \div dv, dv) ELSE 1

\* product of the factors of fs, each raised to its multiplicity in x
RECURSIVE ProductOfPowers(_, _)
ProductOfPowers(fs, x) ==
    IF fs = <<>> THEN 1 ELSE PrimePower(x, Head(fs)) * ProductOfPowers(Tail(fs), x)

Searched == dpc \in {"public", "shared", "done"}

----------------------------------------------------------------------------
\* Properties

\* C1: RSA round trip.  For primes p # q, every e coprime to the totient and
\* every 0 <= M < n, decrypting the encryption of M with d = modInverse(e,
\* totient) gives M back.
C1_RoundTrip ==
    (rpc = "done" /\ GCD(e, totient) = 1) => Mp = M

\* C2: for every modulus > 1 and every e coprime to it, modInverse returns d
\* with 0 < d < modulus and e*d mod modulus = 1.
C2_ModInverse ==
    (call = "modInverse" /\ fb > 1 /\ GCD(Abs(fa), fb) = 1)
        => (0 < ret /\ ret < fb /\ (fa * ret) % fb = 1)

\* C3: the generator search of the first program ends, within P candidates,
\* on the smallest g >= start that meets the criterion g^((P-1)/q) mod P # 1
\* for every prime factor q of P-1; for P = 23 from 2 it is 5.
C3_SmallestGenerator ==
    (prog = "generic" /\ Searched)
        => /\ alpha >= start
           /\ alpha - start < P
           /\ Criterion(alpha, P)
           /\ \A gg \in start..(alpha - 1) : ~Criterion(gg, P)
           /\ (P = 23 /\ start = 2) => alpha = 5

C3_Witness ==
    prog = "generic" /\ dpc = "public" /\ P = 23 /\ start = 2 /\ alpha = 5

\* C4: for n > 1, factor_distinct returns exactly the prime divisors of n:
\* each factor prime, no factor twice, and the product of the factors raised
\* to their multiplicities in n is n.
C4_FactorDistinct ==
    (call = "factor_distinct" /\ fa > 1)
        => LET fs == outfactors
           IN  /\ \A i \in 1..Len(fs) : IsPrime(fs[i])
               /\ \A i, j \in 1..Len(fs) : i # j => fs[i] # fs[j]
               /\ {fs[i] : i \in 1..Len(fs)} = PrimeDivisors(fa)
               /\ ProductOfPowers(fs, fa) = fa

C4_Witness ==
    call = "factor_distinct" /\ fa = 396 /\ outfactors = <<2, 3, 11>>

\* C5: whenever gen_safe_prime has returned (P, r): P = 2r + 1, P and r pass
\* the primality test, and P has at least DIGITS_MIN decimal digits.
C5_SafePrime ==
    (prog = "safe" /\ dpc # "gen")
        => /\ P = 2 * r + 1
           /\ mpz_probab_prime_p(P, PRP_REPS) # 0
           /\ mpz_probab_prime_p(r, PRP_REPS) # 0
           /\ DecimalDigits(P) >= digits

C5_Witness ==
    prog = "safe" /\ dpc = "search" /\ digits = 2 /\ P = 83 /\ r = 41

\* C6: at the end of either Diffie-Hellman program the two shared secrets
\* are equal.
C6_Agreement ==
    dpc = "done" => SA = SB

C6_Witness ==
    dpc = "done" /\ XA = 6 /\ XB = 5 /\ YA # YB /\ SA = SB /\ SA > 1

\* C7: on a safe prime P = 2r + 1 the search with is_generator_safe_prime
\* returns what the search with is_generator on factor_distinct(P-1), whose
\* factors are 2 and r, returns, for every start from 2 to P-1.
C7_StrategyEquivalence ==
    (prog = "safe" /\ Searched /\ start <= P - 1)
        => LET fs == factor_distinct(P - 1).factors
           IN  /\ {fs[i] : i \in 1..Len(fs)} = {2, r}
               /\ alpha = searchGeneric(P, fs, start)

C7_Witness ==
    prog = "safe" /\ dpc = "public" /\ P = 23 /\ r = 11 /\ start = 6 /\ alpha = 7

\* C8: power(b, 0, m) is 1 mod m for every m > 1, and power(b, e, 1) is 0 for
\* every b and every e >= 0.
C8_PowerBoundary ==
    call = "power"
        => /\ (fb = 0 /\ fc > 1) => ret = 1 % fc
           /\ (fc = 1 /\ fb >= 0) => ret = 0

\* C9: for a, b > 0, gcdExtended returns (g, x, y) with a*x + b*y = g and
\* g the greatest common divisor of a and b.
C9_GcdExtended ==
    (call = "gcdExtended" /\ fa > 0 /\ fb > 0)
        => /\ fa * outx + fb * outy = ret
           /\ ret = GCD(fa, fb)

C9_Witness ==
    call = "gcdExtended" /\ fa = 12 /\ fb = 8 /\ ret = 4 /\ outx = 1 /\ outy = -1

\* C10: the alpha a generator search returns from a start in 2..P-1 is a
\* primitive root of P: the candidate the test accepted has powers that
\* enumerate all nonzero residues.
C10_PrimitiveRoot ==
    (Searched /\ start <= P - 1) => IsPrimitiveRoot(alpha, P)

====
